---- MODULE Spec2Model ----
(***************************************************************************)
(* NexusApp (src/src/core/nexus-nf.ts): the controller registry and the    *)
(* per-message dispatch pipeline, with the controllers of                  *)
(* src/src/core/controller.ts and the endpoint entries of                  *)
(* src/src/core/decorators.ts.                                             *)
(*                                                                         *)
(* JavaScript values are records with a "tag" field, so that values of     *)
(* different JavaScript types can be compared.                             *)
(***************************************************************************)
EXTENDS Integers, Sequences, FiniteSets, TLC

\* ------------------------------------------------------------------ bounds
\* Messages delivered by the transport in one behaviour.
MaxMsgs == 1
\* registerController calls in one behaviour.
MaxRegCalls == 3
\* addEndpoint calls the transport may reject in one behaviour.
MaxFaults == 1
\* Controller instances constructed in one behaviour.
MaxObjects == 2
\* Entries an endpoints array may grow to.
MaxEndpoints == 3
\* Requests that are sent a second time.
MaxResends == 1
\* shutdown() calls in one behaviour.
MaxShutdowns == 1
\* Assignments to process.env.NODE_ENV after the app is constructed.
MaxEnvChanges == 1

\* ------------------------------------------------------- JavaScript values
Undefined == [tag |-> "undefined"]
Null == [tag |-> "null"]
Str(s) == [tag |-> "string", s |-> s]
Num(n) == [tag |-> "number", n |-> n]
Bool(b) == [tag |-> "boolean", b |-> b]
\* An object JSON.stringify cannot serialise (a circular structure, a BigInt).
Circular == [tag |-> "circular"]
\* Object.create(null): an object without prototype, so without toString.
NullProto == [tag |-> "object", proto |-> Null]
\* a ?? b
Nullish(a, b) == IF a = Undefined \/ a = Null THEN b ELSE a

\* Error objects: class is the most derived class the value is an instance of.
ZodError(issues) == [tag |-> "error", class |-> "ZodError", name |-> "ZodError",
                     message |-> "validation", stack |-> "zod stack",
                     code |-> Undefined, issues |-> issues]
NatsError(message, code) == [tag |-> "error", class |-> "NatsError", name |-> "NatsError",
                             message |-> message, stack |-> "nats stack",
                             code |-> code, issues |-> Undefined]
PlainError(message) == [tag |-> "error", class |-> "Error", name |-> "Error",
                        message |-> message, stack |-> "error stack",
                        code |-> Undefined, issues |-> Undefined]
SyntaxError == [tag |-> "error", class |-> "SyntaxError", name |-> "SyntaxError",
                message |-> "Unexpected token", stack |-> "syntax stack",
                code |-> Undefined, issues |-> Undefined]
TypeError == [tag |-> "error", class |-> "TypeError", name |-> "TypeError",
              message |-> "Converting circular structure to JSON", stack |-> "type stack",
              code |-> Undefined, issues |-> Undefined]

\* err instanceof C
InstanceOf(err, class) ==
    /\ err.tag = "error"
    /\ \/ err.class = class
       \/ class = "Error"

\* String(v) throws a TypeError for an object that has no toString to
\* convert it with.
StringThrows(v) == v = NullProto

\* Mutant: the name of the value's type instead of its rendering.
StringOf_TypeName(v) == Str(v.tag)

\* String(err)
StringOf(v) ==
    CASE v.tag = "string" -> v
      [] v.tag = "number" -> Str(ToString(v.n))
      [] v.tag = "circular" -> Str("[object Object]")
      [] v.tag = "error" -> Str(v.name)
      [] OTHER -> Str(v.tag)

\* ---------------------------------------------------- endpoints, controllers
\* EndpointOptions: every option is optional (Undefined when not given).
NoOptions == [schema |-> Undefined, asBytes |-> Undefined,
              queue |-> Undefined, metadata |-> Undefined]
MathSchema == [tag |-> "schema", name |-> "MathSchema"]
\* A schema over the raw bytes, with a transform that parses them.
BytesSchema == [tag |-> "schema", name |-> "BytesSchema"]

\* @Endpoint(name, options) on a method: pushes an entry on the class's
\* __endpoints__ list, the options copied.
Endpoint(endpoints, name, handler, options) ==
    Append(endpoints, [name |-> name, handler |-> handler, options |-> options])

\* The controller classes of the program, in the order they are defined.
\* PingController and its subclass are defined but not registered;
\* EmptyNameController declares no endpoint.
Program == <<"MathController", "StatsController", "TextController",
             "PingController", "PingPongController", "EmptyNameController">>
Classes == {Program[i] : i \in DOMAIN Program}
\* class X extends Super(X)
Super(class) == IF class = "PingPongController" THEN "PingController"
                ELSE "ControllerBase"

\* The @Endpoint(name, options) decorators of each class, in the order of the
\* methods; options is Undefined for @Endpoint(name).
Declarations(class) ==
    CASE class = "MathController" ->
           << [name |-> "add", method |-> "MathController.add",
               options |-> [NoOptions EXCEPT !.schema = MathSchema]],
              [name |-> "raw", method |-> "MathController.raw",
               options |-> [NoOptions EXCEPT !.asBytes = Bool(TRUE),
                                             !.queue = Str("fast")]] >>
      [] class = "StatsController" ->
           << [name |-> "mean", method |-> "StatsController.mean",
               options |-> Undefined],
              [name |-> "sum", method |-> "StatsController.sum",
               options |-> [NoOptions EXCEPT !.schema = BytesSchema,
                                             !.asBytes = Bool(TRUE)]] >>
      [] class = "TextController" ->
           << [name |-> "echo", method |-> "TextController.echo",
               options |-> [NoOptions EXCEPT
                              !.metadata = [tag |-> "object", doc |-> "echo"]]] >>
      [] class = "PingController" ->
           << [name |-> "ping", method |-> "PingController.ping",
               options |-> Undefined] >>
      [] class = "PingPongController" ->
           << [name |-> "", method |-> "PingPongController.pong",
               options |-> Undefined] >>
      [] OTHER -> << >>

\* The static __endpoints__ properties: owners are the classes that have the
\* property as their own, arrays their arrays. An array is known by the class
\* that owns it.
NoStatics == [owners |-> {}, arrays |-> [c \in Classes |-> << >>]]

RECURSIVE StaticOwner(_, _)
\* class.__endpoints__, looked up along the chain of superclasses: the class
\* whose array it is, "none" when the property is undefined.
StaticOwner(statics, class) ==
    IF class \in statics.owners THEN class
    ELSE IF Super(class) = "ControllerBase" THEN "none"
    ELSE StaticOwner(statics, Super(class))

\* One @Endpoint decorator of class: target.constructor.__endpoints__ ??= [],
\* then the push of the entry, the options copied.
Decorate(statics, class, d) ==
    LET created == IF StaticOwner(statics, class) = "none"
                   THEN [statics EXCEPT !.owners = @ \cup {class}]
                   ELSE statics
        owner == StaticOwner(created, class)
    IN  [created EXCEPT !.arrays[owner] =
            Endpoint(@, d.name, d.method, Nullish(d.options, NoOptions))]

RECURSIVE DefineClass(_, _, _)
\* The decorators of class from the i-th on.
DefineClass(statics, class, i) ==
    IF i > Len(Declarations(class)) THEN statics
    ELSE DefineClass(Decorate(statics, class, Declarations(class)[i]), class, i + 1)

RECURSIVE DefineClasses(_, _)
\* The class definitions of the program from the i-th on.
DefineClasses(statics, i) ==
    IF i > Len(Program) THEN statics
    ELSE DefineClasses(DefineClass(statics, Program[i], 1), i + 1)

\* The static properties once the program's classes are defined.
Loaded == DefineClasses(NoStatics, 1)

\* (this.constructor as any).__endpoints__ ?? [] as the constructor reads it:
\* ref is the array the instance's list is ("own" for a new empty array of
\* its own), list its entries at that moment.
EndpointsRef(statics, class) ==
    IF StaticOwner(statics, class) = "none"
    THEN [ref |-> "own", list |-> << >>]
    ELSE [ref |-> StaticOwner(statics, class),
          list |-> statics.arrays[StaticOwner(statics, class)]]

\* The __endpoints__ list of each class after the program's decorators ran.
ClassEndpoints(class) == EndpointsRef(Loaded, class).list

\* new SomeController(group, options) through the ControllerBase constructor,
\* with the static properties as they are at that moment; id is the identity
\* of the instance. endpoints holds the entries of the list at construction,
\* ref the array the list is, own that array when it is the instance's own.
Construct(statics, id, class, group, options) ==
    [id |-> id, class |-> class,
     endpoints |-> EndpointsRef(statics, class).list,
     ref |-> EndpointsRef(statics, class).ref,
     own |-> << >>,
     group |-> group,
     options |-> options,
     queue |-> options.queue]

\* The same, for an instance made right after the program's classes are defined.
ControllerBase(id, class, group, options) ==
    Construct(Loaded, id, class, group, options)

\* The controller instances the application creates.
Controllers ==
    { ControllerBase(1, "MathController", "math", [queue |-> Str("math-workers")]),
      ControllerBase(2, "MathController", "math", [queue |-> Str("math-workers")]),
      ControllerBase(3, "StatsController", "math", [queue |-> Undefined]),
      ControllerBase(4, "TextController", "text", [queue |-> Str("text-workers")]) }

GroupNames == {c.group : c \in Controllers}
\* The key undefined of the group map, and the argument undefined of
\* addGroup; no group name of the program is this string.
UndefinedKey == "undefined"
\* An object that is no controller, as registerController receives it from
\* untyped code: {} has the constructor Object and neither group nor endpoints.
PlainObject == [id |-> 0, class |-> "Object", group |-> UndefinedKey]
ControllerOf(id) == CHOOSE c \in Controllers : c.id = id

\* ------------------------------------------------------------------- state
VARIABLES
    isDev,                 \* NexusApp.isDev
    groups,                \* NexusApp.groups: group name -> handle (0: no entry)
    registeredControllers, \* NexusApp.registeredControllers
    svcGroups,             \* transport: the addGroup calls, in order; a handle is a position
    svcEndpoints,          \* transport: the addEndpoint calls that succeeded, in order
    regCalls,              \* registerController calls made
    faults,                \* addEndpoint calls the transport rejected
    lastReg,               \* the last registerController call and how it ended
    succeeded,             \* ids of the instances whose registerController returned
    msgs,                  \* per delivered message: the wrapHandler invocation
    outbox,                \* transport: reply subject -> bodies published on it
    statics,               \* the static __endpoints__ properties of the classes
    objects,               \* the controller instances constructed, in order
    nodeEnv,               \* process.env.NODE_ENV: its values since the app was
                           \* constructed, the current one last
    lifecycle              \* the calls made on the service and the connection by
                           \* shutdown(), and their completions, in order

regvars == <<groups, registeredControllers, svcGroups, svcEndpoints,
             regCalls, faults, lastReg, succeeded>>
\* The state of the program around the app.
hostvars == <<statics, objects, nodeEnv, lifecycle>>
vars == <<isDev, groups, registeredControllers, svcGroups, svcEndpoints,
          regCalls, faults, lastReg, succeeded, msgs, outbox,
          statics, objects, nodeEnv, lifecycle>>

\* ------------------------------------------------------ registerController
EmptyObject == [tag |-> "object"]
NoCall == [seq |-> 0, ctrl |-> 0, faultAt |-> 0, outcome |-> "none",
           wasRegistered |-> FALSE, classWasRegistered |-> FALSE]

\* The app and the transport before any registerController call.
NewApp == [groups |-> [n \in GroupNames \cup {UndefinedKey} |-> 0],
           registeredControllers |-> {},
           svcGroups |-> <<>>, svcEndpoints |-> <<>>,
           regCalls |-> 0, faults |-> 0, lastReg |-> NoCall, succeeded |-> {}]
\* The same, as the variables hold it.
AppState == [groups |-> groups, registeredControllers |-> registeredControllers,
             svcGroups |-> svcGroups, svcEndpoints |-> svcEndpoints,
             regCalls |-> regCalls, faults |-> faults, lastReg |-> lastReg,
             succeeded |-> succeeded]

\* Mutant: the registered set keyed by the group name.
ControllerKey_ByGroup(c) == c.group

\* What registeredControllers holds for a controller: controller.constructor.
ControllerKey(c) == c.class

\* Mutant: the handle addGroup returns is not stored in the map.
LookupGroup_NoSet(app, c) ==
    IF app.groups[c.group] = 0
    THEN [handle |-> Len(app.svcGroups) + 1,
          svcGroups |-> Append(app.svcGroups, c.group),
          groups |-> app.groups]
    ELSE [handle |-> app.groups[c.group],
          svcGroups |-> app.svcGroups, groups |-> app.groups]

\* this.groups.get(controller.group), and addGroup + groups.set when it is
\* undefined: the handle, and the transport's and the map's new contents.
LookupGroup(app, c) ==
    IF app.groups[c.group] = 0
    THEN [handle |-> Len(app.svcGroups) + 1,
          svcGroups |-> Append(app.svcGroups, c.group),
          groups |-> [app.groups EXCEPT ![c.group] = Len(app.svcGroups) + 1]]
    ELSE [handle |-> app.groups[c.group],
          svcGroups |-> app.svcGroups, groups |-> app.groups]

\* Mutant: the metadata of the endpoint is not passed on.
AddEndpointOptions_NoMetadata(c, endpoint) ==
    [metadata |-> EmptyObject,
     queue |-> Nullish(endpoint.options.queue, Str(""))]

\* The options registerController passes to group.addEndpoint.
AddEndpointOptions(c, endpoint) ==
    [metadata |-> Nullish(endpoint.options.metadata, EmptyObject),
     queue |-> Nullish(endpoint.options.queue, Str(""))]

\* One successful group.addEndpoint(endpoint.name, {handler, metadata, queue}):
\* the handler closes over endpoint; ctrl and index say whose endpoint it is.
Binding(handle, c, i) ==
    [handle |-> handle, name |-> c.endpoints[i].name,
     options |-> AddEndpointOptions(c, c.endpoints[i]),
     endpoint |-> c.endpoints[i], ctrl |-> c.id, index |-> i]

RECURSIVE BindAll(_, _, _, _, _)
\* The loop over controller.endpoints, from entry i up to entry last.
BindAll(bound, handle, c, i, last) ==
    IF i > last THEN bound
    ELSE BindAll(Append(bound, Binding(handle, c, i)), handle, c, i + 1, last)

\* Whether a registerController call of an instance of c's class has returned.
ClassSucceeded(app, c) == \E id \in app.succeeded : ControllerOf(id).class = c.class

\* The duplicate check throws: nothing else happens.
RejectDuplicate(app, c) ==
    [app EXCEPT !.regCalls = @ + 1,
                !.lastReg = [seq |-> app.regCalls + 1, ctrl |-> c.id, faultAt |-> 0,
                             outcome |-> "DuplicateControllerError",
                             wasRegistered |-> c.id \in app.succeeded,
                             classWasRegistered |-> ClassSucceeded(app, c)]]

\* Mutant: a failed addEndpoint call undoes what the call has done so far.
BindController_Rollback(app, c, faultAt) ==
    LET g == LookupGroup(app, c)
    IN  [groups |-> IF faultAt = 0 THEN g.groups ELSE app.groups,
         svcGroups |-> g.svcGroups,
         svcEndpoints |-> IF faultAt = 0
                          THEN BindAll(app.svcEndpoints, g.handle, c, 1, Len(c.endpoints))
                          ELSE app.svcEndpoints,
         registeredControllers |->
             IF faultAt = 0 THEN app.registeredControllers \cup {ControllerKey(c)}
             ELSE app.registeredControllers,
         succeeded |-> IF faultAt = 0 THEN app.succeeded \cup {c.id} ELSE app.succeeded,
         faults |-> IF faultAt = 0 THEN app.faults ELSE app.faults + 1,
         regCalls |-> app.regCalls + 1,
         lastReg |-> [seq |-> app.regCalls + 1, ctrl |-> c.id, faultAt |-> faultAt,
                      outcome |-> IF faultAt = 0 THEN "ok" ELSE "addEndpoint threw",
                      wasRegistered |-> c.id \in app.succeeded,
                      classWasRegistered |-> ClassSucceeded(app, c)]]

\* Mutant: the controller is recorded before its endpoints are bound.
BindController_RecordFirst(app, c, faultAt) ==
    LET g == LookupGroup(app, c)
        last == IF faultAt = 0 THEN Len(c.endpoints) ELSE faultAt - 1
    IN  [groups |-> g.groups,
         svcGroups |-> g.svcGroups,
         svcEndpoints |-> BindAll(app.svcEndpoints, g.handle, c, 1, last),
         registeredControllers |-> app.registeredControllers \cup {ControllerKey(c)},
         succeeded |-> app.succeeded \cup {c.id},
         faults |-> IF faultAt = 0 THEN app.faults ELSE app.faults + 1,
         regCalls |-> app.regCalls + 1,
         lastReg |-> [seq |-> app.regCalls + 1, ctrl |-> c.id, faultAt |-> faultAt,
                      outcome |-> IF faultAt = 0 THEN "ok" ELSE "addEndpoint threw",
                      wasRegistered |-> c.id \in app.succeeded,
                      classWasRegistered |-> ClassSucceeded(app, c)]]

\* The body after the duplicate check. faultAt = 0: every addEndpoint call
\* succeeds; faultAt = k > 0: the k-th addEndpoint call throws, which ends the
\* call before registeredControllers.add.
BindController(app, c, faultAt) ==
    LET g == LookupGroup(app, c)
        last == IF faultAt = 0 THEN Len(c.endpoints) ELSE faultAt - 1
    IN  [groups |-> g.groups,
         svcGroups |-> g.svcGroups,
         svcEndpoints |-> BindAll(app.svcEndpoints, g.handle, c, 1, last),
         registeredControllers |->
             IF faultAt = 0 THEN app.registeredControllers \cup {ControllerKey(c)}
             ELSE app.registeredControllers,
         succeeded |-> IF faultAt = 0 THEN app.succeeded \cup {c.id} ELSE app.succeeded,
         faults |-> IF faultAt = 0 THEN app.faults ELSE app.faults + 1,
         regCalls |-> app.regCalls + 1,
         lastReg |-> [seq |-> app.regCalls + 1, ctrl |-> c.id, faultAt |-> faultAt,
                      outcome |-> IF faultAt = 0 THEN "ok" ELSE "addEndpoint threw",
                      wasRegistered |-> c.id \in app.succeeded,
                      classWasRegistered |-> ClassSucceeded(app, c)]]

\* Mutant: no duplicate check.
Registered_NoDuplicateCheck(app, c, faultAt) == BindController(app, c, faultAt)

\* registerController(controller) on the app app: the app and the transport
\* after the call. A duplicate is rejected before any addEndpoint call, so
\* faultAt has no say in it.
Registered(app, c, faultAt) ==
    IF ControllerKey(c) \in app.registeredControllers
    THEN RejectDuplicate(app, c)
    ELSE BindController(app, c, faultAt)

\* registerController(o) for an object o without endpoints property: there is
\* no check of what o is, so the duplicate check and the group lookup run as
\* for a controller, and the for...of over o.endpoints (undefined) throws a
\* TypeError before any addEndpoint call.
RegisteredObject(app, o) ==
    IF ControllerKey(o) \in app.registeredControllers
    THEN [app EXCEPT !.regCalls = @ + 1,
                     !.lastReg = [NoCall EXCEPT !.seq = app.regCalls + 1,
                                                !.outcome = "DuplicateControllerError"]]
    ELSE [app EXCEPT !.groups = LookupGroup(app, o).groups,
                     !.svcGroups = LookupGroup(app, o).svcGroups,
                     !.regCalls = @ + 1,
                     !.lastReg = [NoCall EXCEPT !.seq = app.regCalls + 1,
                                                !.outcome = "TypeError"]]

registerObject(o) ==
    /\ regCalls < MaxRegCalls
    /\ LET app == RegisteredObject(AppState, o)
       IN  /\ groups' = app.groups
           /\ svcGroups' = app.svcGroups
           /\ regCalls' = app.regCalls
           /\ lastReg' = app.lastReg
    /\ UNCHANGED <<registeredControllers, svcEndpoints, faults, succeeded>>
    /\ UNCHANGED <<isDev, msgs, outbox, hostvars>>

registerController(c, faultAt) ==
    /\ regCalls < MaxRegCalls
    /\ IF ControllerKey(c) \in registeredControllers
       THEN faultAt = 0
       ELSE faultAt > 0 => faults < MaxFaults
    /\ LET app == Registered(AppState, c, faultAt)
       IN  /\ groups' = app.groups
           /\ registeredControllers' = app.registeredControllers
           /\ svcGroups' = app.svcGroups
           /\ svcEndpoints' = app.svcEndpoints
           /\ regCalls' = app.regCalls
           /\ faults' = app.faults
           /\ lastReg' = app.lastReg
           /\ succeeded' = app.succeeded
    /\ UNCHANGED <<isDev, msgs, outbox, hostvars>>

\* ---------------------------------------------------------------- messages
JsonValid == "{firstNumber:10,secondNumber:15}"
JsonInvalid == "{firstNumber:10,secondNumber:true}"
PlainText == "hello"
Payloads == {JsonValid, JsonInvalid, PlainText}

NoFault == [tag |-> "none"]
Headers == [tag |-> "headers", trace |-> "abc"]
\* The reply subject of the m-th delivered message.
Inbox(m) == [tag |-> "string", s |-> <<"_INBOX", m>>]

\* Msg.data
MsgData(msg) == [tag |-> "bytes", of |-> msg.data]
\* Msg.string()
MsgString(msg) == Str(msg.data)
\* Msg.json(): the parsed payload, or a throw. jsonFault stands for a json()
\* that fails for another reason than the payload not being JSON.
MsgJson(msg) ==
    IF msg.jsonFault # NoFault THEN [threw |-> TRUE, v |-> msg.jsonFault]
    ELSE IF msg.data \in {JsonValid, JsonInvalid}
         THEN [threw |-> FALSE, v |-> [tag |-> "object", json |-> msg.data]]
         ELSE [threw |-> TRUE, v |-> NatsError("Bad JSON", Str("BAD_JSON"))]

\* The (err, msg) pairs the transport hands to an endpoint's handler.
TransportErrors == {NatsError("Test nats error", Str("503")),
                    NatsError("Test nats error", Undefined)}
Deliveries(m) ==
    { x \in { [err |-> e,
               msg |-> [data |-> d, jsonFault |-> f, headers |-> h, reply |-> r]] :
               e \in TransportErrors \cup {Null}, d \in Payloads,
               f \in {NoFault, PlainError("Test parse error"), Num(0)},
               h \in {Undefined, Headers}, r \in {Undefined, Inbox(m)} } :
        /\ x.err # Null => x.msg.data = PlainText /\ x.msg.jsonFault = NoFault
        /\ x.msg.jsonFault # NoFault => x.msg.data = PlainText
        /\ x.msg.headers # Undefined => x.msg.data = JsonValid }

\* schema.parseAsync(data): the schema's output, or a rejection. MathSchema
\* gives the parsed object, or a ZodError whose issues describe the rejected
\* input. BytesSchema does the same on the bytes of a JSON payload; its
\* transform throws a string on bytes that are no JSON, and parseAsync
\* rejects with what the transform threw.
SchemaParseAsync(schema, data) ==
    CASE schema = MathSchema /\ data = [tag |-> "object", json |-> JsonValid] ->
           [threw |-> FALSE, v |-> [tag |-> "object", parsed |-> JsonValid]]
      [] schema = BytesSchema /\ data = [tag |-> "bytes", of |-> JsonValid] ->
           [threw |-> FALSE, v |-> [tag |-> "object", parsed |-> JsonValid]]
      [] schema = BytesSchema /\ data = [tag |-> "bytes", of |-> PlainText] ->
           [threw |-> TRUE, v |-> Str("transform failed")]
      [] OTHER ->
           [threw |-> TRUE, v |-> ZodError([tag |-> "issues", input |-> data])]

\* Mutant: no fallback to msg.string().
DecodeData_NoFallback(endpoint, msg) ==
    IF Nullish(endpoint.options.asBytes, Bool(FALSE)) = Bool(TRUE)
    THEN [threw |-> FALSE, v |-> MsgData(msg)]
    ELSE MsgJson(msg)

\* Mutant: every failure of msg.json() falls back to msg.string().
DecodeData_FallbackAlways(endpoint, msg) ==
    IF Nullish(endpoint.options.asBytes, Bool(FALSE)) = Bool(TRUE)
    THEN [threw |-> FALSE, v |-> MsgData(msg)]
    ELSE IF ~MsgJson(msg).threw THEN MsgJson(msg)
    ELSE [threw |-> FALSE, v |-> MsgString(msg)]

\* Mutant: asBytes is not read.
DecodeData_IgnoreAsBytes(endpoint, msg) ==
    IF ~MsgJson(msg).threw THEN MsgJson(msg)
    ELSE IF InstanceOf(MsgJson(msg).v, "NatsError") \/ InstanceOf(MsgJson(msg).v, "SyntaxError")
         THEN [threw |-> FALSE, v |-> MsgString(msg)]
         ELSE MsgJson(msg)

\* parseMessageData, up to the schema: the try/catch around msg.data / msg.json().
DecodeData(endpoint, msg) ==
    LET asBytes == Nullish(endpoint.options.asBytes, Bool(FALSE))
        json == MsgJson(msg)
    IN  IF asBytes = Bool(TRUE) THEN [threw |-> FALSE, v |-> MsgData(msg)]
        ELSE IF ~json.threw THEN json
        ELSE IF InstanceOf(json.v, "NatsError") \/ InstanceOf(json.v, "SyntaxError")
             THEN [threw |-> FALSE, v |-> MsgString(msg)]
             ELSE json

\* Mutant: the schema is consulted, its output dropped.
parseMessageData_KeepInput(endpoint, msg) ==
    LET d == DecodeData(endpoint, msg)
    IN  IF d.threw THEN [threw |-> TRUE, v |-> d.v, stage |-> "decode"]
        ELSE IF endpoint.options.schema # Undefined
                  /\ SchemaParseAsync(endpoint.options.schema, d.v).threw
             THEN [threw |-> TRUE, stage |-> "validate",
                   v |-> SchemaParseAsync(endpoint.options.schema, d.v).v]
             ELSE [threw |-> FALSE, v |-> d.v, stage |-> "decode"]

\* parseMessageData: what its promise settles to, and the step that failed.
parseMessageData(endpoint, msg) ==
    LET d == DecodeData(endpoint, msg)
    IN  IF d.threw THEN [threw |-> TRUE, v |-> d.v, stage |-> "decode"]
        ELSE IF endpoint.options.schema # Undefined
             THEN LET p == SchemaParseAsync(endpoint.options.schema, d.v)
                  IN  [threw |-> p.threw, v |-> p.v, stage |-> "validate"]
             ELSE [threw |-> FALSE, v |-> d.v, stage |-> "decode"]

\* JSON.stringify of an object: fields holding undefined are left out; a value
\* that cannot be serialised makes it throw.
JSONstringify(obj) ==
    IF \E f \in DOMAIN obj : obj[f] = Circular
    THEN [threw |-> TRUE, v |-> TypeError]
    ELSE [threw |-> FALSE,
          v |-> [f \in {g \in DOMAIN obj : obj[g] # Undefined} |-> obj[f]]]

\* Mutant: the issue list is disclosed in development mode only.
ValidationResponse_DevOnly(err) ==
    [error |-> Bool(TRUE), code |-> Str("400"),
     message |-> Str("Bad Request: Validation failed."),
     details |-> IF isDev THEN err.issues ELSE Undefined]

\* Mutant: the code is not defaulted.
NatsErrorResponse_NoDefaultCode(err) ==
    [error |-> Bool(TRUE), code |-> err.code,
     message |-> Str(err.message),
     details |-> IF isDev
                 THEN [tag |-> "object", name |-> err.name, stack |-> err.stack]
                 ELSE Undefined]

\* Mutant: the mode is read from the environment when the response is formed.
InternalErrorResponse_CurrentEnv(err) ==
    [error |-> Bool(TRUE), code |-> Str("500"),
     message |-> Str("Internal Server Error"),
     details |-> IF nodeEnv[Len(nodeEnv)] = Str("dev")
                 THEN [tag |-> "object", name |-> err.name,
                       message |-> err.message, stack |-> err.stack]
                 ELSE Undefined]

\* Mutant: the details are disclosed in every mode.
InternalErrorResponse_AlwaysDetails(err) ==
    [error |-> Bool(TRUE), code |-> Str("500"),
     message |-> Str("Internal Server Error"),
     details |-> [tag |-> "object", name |-> err.name,
                  message |-> err.message, stack |-> err.stack]]

\* Mutant: the rendering of the thrown value is disclosed in every mode.
UnknownErrorResponse_AlwaysDetails(err) ==
    [error |-> Bool(TRUE), code |-> Str("500"),
     message |-> Str("An unknown internal error occurred."),
     details |-> StringOf(err)]

\* The four responses of formatErrorResponse, one per kind of failure.
ValidationResponse(err) ==
    [error |-> Bool(TRUE), code |-> Str("400"),
     message |-> Str("Bad Request: Validation failed."),
     details |-> err.issues]

NatsErrorResponse(err) ==
    [error |-> Bool(TRUE), code |-> Nullish(err.code, Str("500")),
     message |-> Str(err.message),
     details |-> IF isDev
                 THEN [tag |-> "object", name |-> err.name, stack |-> err.stack]
                 ELSE Undefined]

InternalErrorResponse(err) ==
    [error |-> Bool(TRUE), code |-> Str("500"),
     message |-> Str("Internal Server Error"),
     details |-> IF isDev
                 THEN [tag |-> "object", name |-> err.name,
                       message |-> err.message, stack |-> err.stack]
                 ELSE Undefined]

UnknownErrorResponse(err) ==
    [error |-> Bool(TRUE), code |-> Str("500"),
     message |-> Str("An unknown internal error occurred."),
     details |-> IF isDev THEN StringOf(err) ELSE Undefined]

\* Whether formatErrorResponse(err) throws instead of returning: the fallback
\* for values that are no Error evaluates String(err) in development mode.
FormatThrows(err) == ~InstanceOf(err, "Error") /\ isDev /\ StringThrows(err)

\* Mutant: the test for Error comes before the test for NatsError.
formatErrorResponse_ErrorFirst(err) ==
    IF InstanceOf(err, "ZodError") THEN ValidationResponse(err)
    ELSE IF InstanceOf(err, "Error") THEN InternalErrorResponse(err)
    ELSE IF InstanceOf(err, "NatsError") THEN NatsErrorResponse(err)
    ELSE UnknownErrorResponse(err)

formatErrorResponse(err) ==
    IF InstanceOf(err, "ZodError") THEN ValidationResponse(err)
    ELSE IF InstanceOf(err, "NatsError") THEN NatsErrorResponse(err)
    ELSE IF InstanceOf(err, "Error") THEN InternalErrorResponse(err)
    ELSE UnknownErrorResponse(err)

\* ---------------------------------------------------------------- handlers
HandlerValues == {Num(8), Undefined, Circular}
HandlerThrows == {PlainError("boom"), NatsError("This is an example error", Str("404")),
                  ZodError([tag |-> "issues", input |-> Str("made by the handler")]),
                  Str("string error")}
\* What one invocation of endpoint.handler(data, headers) does: it returns a
\* value that is no promise, throws, or returns a promise.
Invocations ==
    {[kind |-> "return", v |-> x] : x \in HandlerValues}
      \cup {[kind |-> "throw", v |-> x] : x \in HandlerThrows}
      \cup {[kind |-> "promise", v |-> Undefined]}
\* The second invocation, made when the first returned a promise.
SecondInvocations ==
    {[kind |-> "promise", v |-> Undefined], [kind |-> "return", v |-> Num(8)],
     [kind |-> "throw", v |-> PlainError("boom")]}
\* How a promise returned by the handler settles.
Settlements ==
    {[kind |-> "resolve", v |-> x] : x \in HandlerValues}
      \cup {[kind |-> "reject", v |-> x] : x \in HandlerThrows}

NoValue == [tag |-> "none"]
NoEndpoint == [name |-> "", handler |-> "", options |-> NoOptions]
NoMsg == [data |-> "", jsonFault |-> NoFault, headers |-> Undefined, reply |-> Undefined]
\* pc: idle (not delivered), awaitParse (suspended at await parseMessageData),
\* awaitHandler (suspended at await endpoint.handler(...)), done (wrapHandler's
\* promise fulfilled), rejected (wrapHandler's promise rejected). calls: the arguments of each handler invocation.
\* failure, stage: what the catch block (or the err check) received, and from where.
\* dropped: the promise the first invocation returned, which wrapHandler
\* neither awaits nor gives a rejection handler: none, pending, fulfilled or
\* rejected.
IdleMsg == [pc |-> "idle", endpoint |-> NoEndpoint, err |-> Null, msg |-> NoMsg,
            calls |-> <<>>, awaiting |-> NoValue, failure |-> NoValue,
            stage |-> "none", result |-> NoValue, dropped |-> "none"]

\* Mutant: the reply goes to the requester of the message delivered last.
Respond_LastRequester(box, msg, text) ==
    LET inFlight == {k \in DOMAIN msgs : msgs[k].pc # "idle"}
        last == CHOOSE k \in inFlight : \A j \in inFlight : j <= k
        reply == IF inFlight = {} THEN msg.reply ELSE msgs[last].msg.reply
    IN  IF reply = Undefined THEN box
        ELSE [box EXCEPT ![reply] = Append(@, text)]

\* msg.respond(text): publishes on the reply subject when the message has one.
Respond(box, msg, text) ==
    IF msg.reply = Undefined THEN box
    ELSE [box EXCEPT ![msg.reply] = Append(@, text)]

\* The catch block of wrapHandler. A throw of formatErrorResponse leaves the
\* block before msg.respond: the promise of wrapHandler is rejected, and so
\* is the promise of the addEndpoint handler, which nothing handles.
CatchBlock(m, r, e, stage) ==
    IF FormatThrows(e)
    THEN /\ msgs' = [msgs EXCEPT ![m] =
                       [r EXCEPT !.pc = "rejected", !.failure = e, !.stage = stage]]
         /\ UNCHANGED outbox
    ELSE LET errorResponse == formatErrorResponse(e)
         IN  /\ outbox' = Respond(outbox, r.msg, JSONstringify(errorResponse).v)
             /\ msgs' = [msgs EXCEPT ![m] =
                           [r EXCEPT !.pc = "done", !.failure = e, !.stage = stage]]

\* Mutant: the response carries the handler's argument, not its result.
RespondSuccess_EchoInput(m, r, result) ==
    LET response == [error |-> Bool(FALSE), data |-> r.calls[1].data]
        text == JSONstringify(response)
    IN  /\ outbox' = Respond(outbox, r.msg, text.v)
        /\ msgs' = [msgs EXCEPT ![m] = [r EXCEPT !.pc = "done", !.result = result]]

\* The end of the try block: the success response is built, serialised and sent.
RespondSuccess(m, r, result) ==
    LET response == [error |-> Bool(FALSE), data |-> result]
        text == JSONstringify(response)
    IN  IF text.threw
        THEN CatchBlock(m, [r EXCEPT !.result = result], text.v, "encode")
        ELSE /\ outbox' = Respond(outbox, r.msg, text.v)
             /\ msgs' = [msgs EXCEPT ![m] = [r EXCEPT !.pc = "done", !.result = result]]

\* Mutant: no return after the reply to a transport error.
wrapHandler_FallThrough(m, r) ==
    /\ outbox' = IF r.err # Null
                 THEN Respond(outbox, r.msg, JSONstringify(formatErrorResponse(r.err)).v)
                 ELSE outbox
    /\ msgs' = [msgs EXCEPT ![m] = [r EXCEPT !.pc = "awaitParse"]]

\* wrapHandler up to its first await: the err check, then await parseMessageData.
wrapHandler(m, r) ==
    IF r.err # Null
    THEN LET errorResponse == formatErrorResponse(r.err)
         IN  /\ outbox' = Respond(outbox, r.msg, JSONstringify(errorResponse).v)
             /\ msgs' = [msgs EXCEPT ![m] =
                           [r EXCEPT !.pc = "done", !.failure = r.err,
                                     !.stage = "transport"]]
    ELSE /\ msgs' = [msgs EXCEPT ![m] = [r EXCEPT !.pc = "awaitParse"]]
         /\ UNCHANGED outbox

\* Mutant: a message without reply subject is dropped unprocessed.
Deliver_SkipNoReply(m, b, d) ==
    /\ msgs[m].pc = "idle"
    /\ \A k \in 1..(m - 1) : msgs[k].pc # "idle"
    /\ IF d.msg.reply = Undefined
       THEN /\ msgs' = [msgs EXCEPT ![m] =
                          [IdleMsg EXCEPT !.endpoint = svcEndpoints[b].endpoint,
                                          !.err = d.err, !.msg = d.msg, !.pc = "done"]]
            /\ UNCHANGED outbox
       ELSE wrapHandler(m, [IdleMsg EXCEPT !.endpoint = svcEndpoints[b].endpoint,
                                           !.err = d.err, !.msg = d.msg])
    /\ UNCHANGED <<isDev, regvars, hostvars>>

\* Mutant: a delivery that the transport reports as failed makes the app
\* forget the group of the endpoint.
Deliver_ForgetGroup(m, b, d) ==
    /\ msgs[m].pc = "idle"
    /\ \A k \in 1..(m - 1) : msgs[k].pc # "idle"
    /\ wrapHandler(m, [IdleMsg EXCEPT !.endpoint = svcEndpoints[b].endpoint,
                                      !.err = d.err, !.msg = d.msg])
    /\ groups' = IF d.err # Null
                 THEN [n \in DOMAIN groups |->
                          IF groups[n] = svcEndpoints[b].handle THEN 0 ELSE groups[n]]
                 ELSE groups
    /\ UNCHANGED <<registeredControllers, svcGroups, svcEndpoints,
                   regCalls, faults, lastReg, succeeded>>
    /\ UNCHANGED <<isDev, hostvars>>

\* Mutant: a message is handed over only when no other is being processed.
Deliver_Serial(m, b, d) ==
    /\ msgs[m].pc = "idle"
    /\ \A k \in DOMAIN msgs : msgs[k].pc \in {"idle", "done"}
    /\ \A k \in 1..(m - 1) : msgs[k].pc # "idle"
    /\ wrapHandler(m, [IdleMsg EXCEPT !.endpoint = svcEndpoints[b].endpoint,
                                      !.err = d.err, !.msg = d.msg])
    /\ UNCHANGED <<isDev, regvars, hostvars>>

\* The transport delivers (err, msg) to the handler bound by the b-th
\* addEndpoint call.
Deliver(m, b, d) ==
    /\ msgs[m].pc = "idle"
    /\ \A k \in 1..(m - 1) : msgs[k].pc # "idle"
    /\ wrapHandler(m, [IdleMsg EXCEPT !.endpoint = svcEndpoints[b].endpoint,
                                      !.err = d.err, !.msg = d.msg])
    /\ UNCHANGED <<isDev, regvars, hostvars>>

\* The deliveries: the requests, then the requests sent again.
Slots == 1..(MaxMsgs + MaxResends)
Resends == (MaxMsgs + 1)..(MaxMsgs + MaxResends)
\* The request that the n-th delivery repeats.
Original(n) == ((n - MaxMsgs - 1) % MaxMsgs) + 1

\* Mutant: a request seen before is answered as a duplicate, unprocessed.
Redeliver_Deduplicated(n) ==
    LET o == msgs[Original(n)]
        msg == [o.msg EXCEPT !.reply = IF @ = Undefined THEN Undefined ELSE Inbox(n)]
        r == [IdleMsg EXCEPT !.endpoint = o.endpoint, !.err = o.err, !.msg = msg]
    IN  /\ o.pc # "idle" /\ msgs[n].pc = "idle"
        /\ outbox' = Respond(outbox, msg,
                             JSONstringify([error |-> Bool(TRUE), code |-> Str("409"),
                                            message |-> Str("Duplicate request")]).v)
        /\ msgs' = [msgs EXCEPT ![n] = [r EXCEPT !.pc = "done"]]
        /\ UNCHANGED <<isDev, regvars, hostvars>>

\* The transport delivers once more, to the same handler, a request it has
\* delivered: the same err, data and headers, and a reply subject of its own
\* when the request had one.
Redeliver(n) ==
    LET o == msgs[Original(n)]
        msg == [o.msg EXCEPT !.reply = IF @ = Undefined THEN Undefined ELSE Inbox(n)]
    IN  /\ o.pc # "idle" /\ msgs[n].pc = "idle"
        /\ wrapHandler(n, [IdleMsg EXCEPT !.endpoint = o.endpoint,
                                          !.err = o.err, !.msg = msg])
        /\ UNCHANGED <<isDev, regvars, hostvars>>

\* The requests of clients that are in flight together: well-delivered
\* messages with a reply subject, JSON with headers or plain text without.
Requests(m) ==
    {x \in Deliveries(m) : /\ x.err = Null /\ x.msg.jsonFault = NoFault
                           /\ x.msg.reply = Inbox(m) /\ x.msg.data # JsonInvalid
                           /\ x.msg.data = JsonValid => x.msg.headers = Headers}

\* Mutant: a returned promise is not awaited but sent as the result.
InvokeHandler_NoAwait(m, r, data, c1, c2) ==
    LET args == [data |-> data, headers |-> r.msg.headers]
        r1 == [r EXCEPT !.calls = <<args>>]
    IN  CASE c1.kind = "throw" -> c2 = c1 /\ CatchBlock(m, r1, c1.v, "handler")
          [] c1.kind = "return" -> c2 = c1 /\ RespondSuccess(m, r1, c1.v)
          [] OTHER -> c2 = c1 /\ RespondSuccess(m, r1, [tag |-> "promise"])

\* returnValue = endpoint.handler(data, headers); result = returnValue
\* instanceof Promise ? await endpoint.handler(data, headers) : returnValue.
\* c1 and c2 are what the first and the second invocation do.
InvokeHandler(m, r, data, c1, c2) ==
    LET args == [data |-> data, headers |-> r.msg.headers]
        r1 == [r EXCEPT !.calls = <<args>>]
        r2 == [r EXCEPT !.calls = <<args, args>>, !.dropped = "pending"]
    IN  CASE c1.kind = "throw" -> c2 = c1 /\ CatchBlock(m, r1, c1.v, "handler")
          [] c1.kind = "return" -> c2 = c1 /\ RespondSuccess(m, r1, c1.v)
          [] c1.kind = "promise" /\ c2.kind = "throw" ->
                CatchBlock(m, r2, c2.v, "handler")
          [] OTHER ->
                /\ msgs' = [msgs EXCEPT ![m] =
                              [r2 EXCEPT !.pc = "awaitHandler", !.awaiting = c2]]
                /\ UNCHANGED outbox

\* Mutant: the handler is invoked whether or not parseMessageData failed.
ParseSettles_IgnoreFailure(m, c1, c2) ==
    /\ msgs[m].pc = "awaitParse"
    /\ InvokeHandler(m, msgs[m], parseMessageData(msgs[m].endpoint, msgs[m].msg).v, c1, c2)
    /\ UNCHANGED <<isDev, regvars, hostvars>>

\* wrapHandler resumes after await parseMessageData.
ParseSettles(m, c1, c2) ==
    /\ msgs[m].pc = "awaitParse"
    /\ LET r == msgs[m]
           p == parseMessageData(r.endpoint, r.msg)
       IN  IF p.threw
           THEN c1 = c2 /\ c1.kind = "promise" /\ CatchBlock(m, r, p.v, p.stage)
           ELSE InvokeHandler(m, r, p.v, c1, c2)
    /\ UNCHANGED <<isDev, regvars, hostvars>>

\* Mutant: a handler that takes too long is given up and answered for.
HandlerSettles_TimeLimit(m, s) ==
    /\ msgs[m].pc = "awaitHandler"
    /\ msgs[m].awaiting.kind = "return" => s = [kind |-> "resolve", v |-> msgs[m].awaiting.v]
    /\ IF s.kind = "resolve"
       THEN RespondSuccess(m, msgs[m], s.v)
       ELSE CatchBlock(m, msgs[m], NatsError("TIMEOUT", Str("504")), "timeout")
    /\ UNCHANGED <<isDev, regvars, hostvars>>

\* wrapHandler resumes after await endpoint.handler(data, headers): the
\* awaited value was no promise (s is that value), or the promise settles as s.
HandlerSettles(m, s) ==
    /\ msgs[m].pc = "awaitHandler"
    /\ msgs[m].awaiting.kind = "return" => s = [kind |-> "resolve", v |-> msgs[m].awaiting.v]
    /\ IF s.kind = "resolve"
       THEN RespondSuccess(m, msgs[m], s.v)
       ELSE CatchBlock(m, msgs[m], s.v, "handler")
    /\ UNCHANGED <<isDev, regvars, hostvars>>

\* The promise returned by the first invocation settles; nothing in
\* wrapHandler refers to it any more.
DroppedSettles(m, k) ==
    /\ msgs[m].dropped = "pending"
    /\ msgs' = [msgs EXCEPT ![m].dropped = k]
    /\ UNCHANGED <<isDev, regvars, outbox, hostvars>>

\* ------------------------------------------------- controller instances
\* The arguments of the new SomeController(...) expressions; group Undefined
\* is a call without arguments, options Undefined a call without options.
Constructions ==
    { [class |-> "MathController", group |-> Str("math"),
       options |-> [queue |-> Str("math-workers")]],
      [class |-> "StatsController", group |-> Str("math"), options |-> Undefined],
      [class |-> "PingController", group |-> Str("ping"), options |-> Undefined],
      [class |-> "PingPongController", group |-> Str("ping"), options |-> Undefined],
      [class |-> "EmptyNameController", group |-> Str(""), options |-> Undefined],
      [class |-> "MathController", group |-> Undefined, options |-> Undefined] }

\* An entry made by hand, as the tests make them.
ExtraEntry == [name |-> "test-byte-endpoint", handler |-> "mockHandler",
               options |-> [NoOptions EXCEPT !.asBytes = Bool(TRUE)]]

\* instance.endpoints, read now.
EndpointsOf(o) == IF o.ref = "own" THEN o.own ELSE statics.arrays[o.ref]

\* Mutant: the constructor throws when it is given no group name.
New_RequireGroup(n) ==
    /\ Len(objects) < MaxObjects
    /\ n.group # Undefined
    /\ objects' = Append(objects, Construct(statics, Len(objects) + 1, n.class, n.group,
                                   Nullish(n.options, [queue |-> Undefined])))
    /\ UNCHANGED <<isDev, regvars, msgs, outbox, statics, nodeEnv, lifecycle>>

\* new SomeController(group, options): the constructor has the default
\* options = {} and makes no check.
New(n) ==
    /\ Len(objects) < MaxObjects
    /\ objects' = Append(objects,
                         Construct(statics, Len(objects) + 1, n.class, n.group,
                                   Nullish(n.options, [queue |-> Undefined])))
    /\ UNCHANGED <<isDev, regvars, msgs, outbox, statics, nodeEnv, lifecycle>>

\* instance.endpoints.push(entry) on the i-th instance: the array is the
\* class's static array, or the instance's own.
Push(i, entry) ==
    /\ Len(EndpointsOf(objects[i])) < MaxEndpoints
    /\ IF objects[i].ref = "own"
       THEN /\ objects' = [objects EXCEPT ![i].own = Append(@, entry)]
            /\ UNCHANGED statics
       ELSE /\ statics' = [statics EXCEPT !.arrays[objects[i].ref] = Append(@, entry)]
            /\ UNCHANGED objects
    /\ UNCHANGED <<isDev, regvars, msgs, outbox, nodeEnv, lifecycle>>

\* ------------------------------------------------------ process, shutdown
\* The values NODE_ENV is given.
EnvValues == {Str("dev"), Str("production")}
\* process.env.NODE_ENV, now.
CurrentEnv == nodeEnv[Len(nodeEnv)]
\* this.isDev = process.env?.['NODE_ENV'] === 'dev', in the constructor.
IsDevOf(env) == env = Str("dev")

\* process.env.NODE_ENV = v, by the program, after the app is constructed.
SetEnv(v) ==
    /\ Len(nodeEnv) <= MaxEnvChanges
    /\ v # CurrentEnv
    /\ nodeEnv' = Append(nodeEnv, v)
    /\ UNCHANGED <<isDev, regvars, msgs, outbox, statics, objects, lifecycle>>

\* The events of the k-th shutdown() call in the log.
EventsOf(k) == {i \in DOMAIN lifecycle : lifecycle[i].call = k}
Logged(k, what) == \E i \in EventsOf(k) : lifecycle[i].what = what
ShutdownCalls == Cardinality({i \in DOMAIN lifecycle : lifecycle[i].what = "service.stop()"})

\* Mutant: the service and the connection are shut at the same time.
shutdown_Together ==
    /\ ShutdownCalls < MaxShutdowns
    /\ lifecycle' = lifecycle \o
          << [call |-> ShutdownCalls + 1, what |-> "service.stop()"],
             [call |-> ShutdownCalls + 1, what |-> "natsConnection.close()"] >>
    /\ UNCHANGED <<isDev, regvars, msgs, outbox, statics, objects, nodeEnv>>

\* shutdown() up to its first await: service.stop() is called.
shutdown ==
    /\ ShutdownCalls < MaxShutdowns
    /\ lifecycle' = Append(lifecycle,
                           [call |-> ShutdownCalls + 1, what |-> "service.stop()"])
    /\ UNCHANGED <<isDev, regvars, msgs, outbox, statics, objects, nodeEnv>>

\* The promise of service.stop() settles for the k-th call: fulfilled,
\* shutdown() goes on and calls natsConnection.close(); rejected, shutdown()
\* rejects with the same reason.
StopSettles(k, ok) ==
    /\ Logged(k, "service.stop()")
    /\ ~Logged(k, "stop fulfilled") /\ ~Logged(k, "stop rejected")
    /\ lifecycle' =
          IF ok
          THEN lifecycle \o << [call |-> k, what |-> "stop fulfilled"],
                               [call |-> k, what |-> "natsConnection.close()"] >>
          ELSE Append(lifecycle, [call |-> k, what |-> "stop rejected"])
    /\ UNCHANGED <<isDev, regvars, msgs, outbox, statics, objects, nodeEnv>>

\* The promise of natsConnection.close() settles for the k-th call, and with
\* it the promise of shutdown().
CloseSettles(k, ok) ==
    /\ Logged(k, "natsConnection.close()")
    /\ ~Logged(k, "close fulfilled") /\ ~Logged(k, "close rejected")
    /\ lifecycle' = Append(lifecycle,
                           [call |-> k,
                            what |-> IF ok THEN "close fulfilled" ELSE "close rejected"])
    /\ UNCHANGED <<isDev, regvars, msgs, outbox, statics, objects, nodeEnv>>

\* ------------------------------------------------------------ specification
\* new NexusApp(connection, service), isDev being NODE_ENV === 'dev', followed
\* by the registerController calls that led to app.
InitApp(app) ==
    /\ nodeEnv \in {<<v>> : v \in EnvValues}
    /\ isDev = IsDevOf(nodeEnv[1])
    /\ lifecycle = << >>
    /\ groups = app.groups
    /\ registeredControllers = app.registeredControllers
    /\ svcGroups = app.svcGroups
    /\ svcEndpoints = app.svcEndpoints
    /\ regCalls = app.regCalls
    /\ faults = app.faults
    /\ lastReg = app.lastReg
    /\ succeeded = app.succeeded
    /\ msgs = [m \in Slots |-> IdleMsg]
    /\ outbox = [a \in {Inbox(m) : m \in Slots} |-> <<>>]
    /\ statics = Loaded
    /\ objects = << >>

RECURSIVE RegisterAll(_, _)
\* registerController of each controller of ids, in order, on app.
RegisterAll(app, ids) ==
    IF ids = <<>> THEN app
    ELSE RegisterAll(Registered(app, ControllerOf(Head(ids)), 0), Tail(ids))

\* The controllers a service registers when it starts.
Startup == <<1, 3>>

Init == InitApp(NewApp)
InitServing == InitApp(RegisterAll(NewApp, Startup))

Register == \E c \in Controllers : \E faultAt \in 0..Len(c.endpoints) :
               registerController(c, faultAt)
Receive == \E m \in 1..MaxMsgs : \E b \in DOMAIN svcEndpoints :
               \E d \in Deliveries(m) : Deliver(m, b, d)
Parsed == \E m \in Slots : \E c1 \in Invocations :
              \E c2 \in SecondInvocations \cup {c1} : ParseSettles(m, c1, c2)
Settled == \E m \in Slots : \E s \in Settlements : HandlerSettles(m, s)
Dropped == \E m \in Slots : \E k \in {"fulfilled", "rejected"} : DroppedSettles(m, k)
Resent == \E n \in Resends : Redeliver(n)
\* The steps of the m-th delivery alone: the transport hands over a request,
\* and wrapHandler resumes after one of its awaits.
Arrive(m) == \E b \in DOMAIN svcEndpoints : \E d \in Requests(m) : Deliver(m, b, d)
Resume(m) == \/ \E c1 \in Invocations : \E c2 \in SecondInvocations \cup {c1} :
                   ParseSettles(m, c1, c2)
             \/ \E s \in Settlements : HandlerSettles(m, s)
Arrived == \E m \in Slots : Arrive(m)
\* A handler that throws, or rejects with, an object without prototype.
Unprintable ==
    \E m \in Slots :
        \/ ParseSettles(m, [kind |-> "throw", v |-> NullProto],
                           [kind |-> "throw", v |-> NullProto])
        \/ HandlerSettles(m, [kind |-> "reject", v |-> NullProto])

RegisterObject == registerObject(PlainObject)
Created == \E n \in Constructions : New(n)
Pushed == \E i \in DOMAIN objects : Push(i, ExtraEntry)

Env == \E v \in EnvValues : SetEnv(v)
Stop == \/ shutdown
        \/ \E k \in 1..MaxShutdowns : \E ok \in BOOLEAN : StopSettles(k, ok)
        \/ \E k \in 1..MaxShutdowns : \E ok \in BOOLEAN : CloseSettles(k, ok)

Serve == Receive \/ Parsed \/ Settled \/ Dropped
Build == Created \/ Pushed
Next == Register \/ RegisterObject \/ Serve \/ Resent \/ Arrived \/ Unprintable
          \/ Build \/ Env \/ Stop

\* The whole application.
Spec == Init /\ [][Next]_vars
\* Start-up: the registerController calls, before any message is delivered.
SpecRegister == Init /\ [][Register]_vars
\* Start-up, with calls made from untyped code.
SpecRegisterAny == Init /\ [][Register \/ RegisterObject]_vars
\* Steady state: the messages delivered to a service that has started.
SpecServe == InitServing /\ [][Serve]_vars
\* A service that is shut down, during start-up or after it.
SpecShutdown == Init /\ [][Register \/ Stop]_vars
\* A service whose clients send their requests again.
SpecResend == InitServing /\ [][Serve \/ Resent]_vars
\* A service whose handlers throw values of every kind, and where every
\* suspended message is resumed whenever it can be.
SpecServeAny == InitServing /\ [][Serve \/ Unprintable]_vars
SpecServeFair == SpecServeAny /\ \A m \in 1..MaxMsgs : WF_vars(Resume(m))
\* A service that registers further controllers while it serves.
SpecRun == InitServing /\ [][Register \/ Serve]_vars
\* A service with the requests of several clients in flight.
SpecConcurrent == InitServing /\ [][Arrived \/ Parsed \/ Settled]_vars
\* The same, where every delivery but the first is handed over and resumed
\* whenever it can be; the first may stay suspended for ever.
SpecStarved ==
    SpecConcurrent /\ \A m \in Slots \ {1} : WF_vars(Arrive(m)) /\ WF_vars(Resume(m))
\* A service whose process changes its environment while it serves.
SpecEnv == InitServing /\ [][Serve \/ Env]_vars
\* The program's controller instances: their construction and their lists.
SpecBuild == Init /\ [][Build]_vars

\* ------------------------------------------------------------------ claims
\* The addEndpoint calls that bound endpoints of the controller instance id.
BindingsOf(id) == {i \in DOMAIN svcEndpoints : svcEndpoints[i].ctrl = id}
\* The addGroup calls made for the group name n.
AddGroupCalls(n) == {i \in DOMAIN svcGroups : svcGroups[i] = n}

\* C2: registerController of a controller instance whose registration already
\* succeeded throws the duplicate-registration error, calls neither addGroup
\* nor addEndpoint, and leaves the group map and the registered set as they were.
C2_DuplicateRejected ==
    [][\A c \in Controllers :
          (regCalls' = regCalls + 1 /\ lastReg'.ctrl = c.id /\ c.id \in succeeded)
            => /\ lastReg'.outcome = "DuplicateControllerError"
               /\ UNCHANGED <<groups, registeredControllers, svcGroups, svcEndpoints>>]_vars
C2_Witness ==
    /\ lastReg.outcome = "DuplicateControllerError"
    /\ lastReg.wasRegistered
    /\ svcEndpoints # <<>>

\* C3 as stated: an instance that is registered for the first time while
\* another instance with the same group name is registered is not rejected as
\* a duplicate, and the endpoints of both are bound under one transport group.
C3_SameNameInstancesAccepted ==
    \A c, d \in Controllers :
        (/\ lastReg.ctrl = c.id /\ ~lastReg.wasRegistered
         /\ d.id # c.id /\ d.group = c.group /\ d.id \in succeeded)
          => /\ lastReg.outcome # "DuplicateControllerError"
             /\ lastReg.faultAt = 0 =>
                  /\ Cardinality(BindingsOf(c.id)) >= Len(c.endpoints)
                  /\ \A i \in BindingsOf(c.id) \cup BindingsOf(d.id) :
                        svcEndpoints[i].handle = groups[c.group]
\* C3 amended: a registerController call is rejected as a duplicate exactly
\* when the registration of an instance of the same class succeeded before;
\* so instances of different classes with the same group name are all
\* accepted, and their endpoints are bound under the one transport group of
\* that name, while a second instance of a registered class is rejected.
C3_SameNameClassesAccepted ==
    /\ lastReg.seq > 0 =>
         (lastReg.outcome = "DuplicateControllerError" <=> lastReg.classWasRegistered)
    /\ \A c, d \in Controllers :
         (c.id \in succeeded /\ d.id \in succeeded /\ c.group = d.group)
           => /\ Cardinality(AddGroupCalls(c.group)) = 1
              /\ Cardinality(BindingsOf(c.id)) >= Len(c.endpoints)
              /\ \A i \in BindingsOf(c.id) \cup BindingsOf(d.id) :
                    svcEndpoints[i].handle = groups[c.group]
C3_Witness ==
    \E c, d \in Controllers :
        /\ c.class # d.class /\ c.group = d.group
        /\ c.id \in succeeded /\ d.id \in succeeded
        /\ lastReg.ctrl = d.id /\ lastReg.outcome = "ok"

\* C4: addGroup is called at most once for each group name, and every
\* endpoint is bound through the handle the map holds for its controller's
\* group name.
C4_OneGroupPerName ==
    /\ \A n \in GroupNames :
         /\ Cardinality(AddGroupCalls(n)) <= 1
         /\ groups[n] # 0 <=> AddGroupCalls(n) # {}
         /\ groups[n] # 0 => svcGroups[groups[n]] = n
    /\ \A i \in DOMAIN svcEndpoints :
         svcEndpoints[i].handle = groups[ControllerOf(svcEndpoints[i].ctrl).group]
C4_Witness ==
    /\ regCalls >= 2
    /\ svcGroups = <<"math">>
    /\ \E i, j \in DOMAIN svcEndpoints :
          i < j /\ svcEndpoints[i] = svcEndpoints[j]

\* C5: every endpoint is bound with its own queue option when it has one, and
\* otherwise with the queue of the controller that owns it.
C5_EffectiveQueue ==
    \A i \in DOMAIN svcEndpoints :
        LET b == svcEndpoints[i]
            c == ControllerOf(b.ctrl)
        IN  IF b.endpoint.options.queue # Undefined
            THEN b.options.queue = b.endpoint.options.queue
            ELSE c.queue # Undefined => b.options.queue = c.queue

\* The replies published for the m-th message.
Replies(m) == outbox[Inbox(m)]
HasReply(m) == msgs[m].msg.reply # Undefined
Answered(m) == msgs[m].pc = "done" /\ HasReply(m)
IsSuccessEnvelope(body) ==
    /\ DOMAIN body \subseteq {"error", "data"}
    /\ "error" \in DOMAIN body /\ body["error"] = Bool(FALSE)
IsErrorEnvelope(body) ==
    /\ DOMAIN body \subseteq {"error", "message", "code", "details"}
    /\ {"error", "message"} \subseteq DOMAIN body /\ body["error"] = Bool(TRUE)

DecodeFails(r) ==
    Nullish(r.endpoint.options.asBytes, Bool(FALSE)) # Bool(TRUE) /\ r.msg.jsonFault # NoFault
\* The validator's transform throws instead of accepting or rejecting.
ValidatorThrows(r) ==
    /\ r.endpoint.options.schema = BytesSchema
    /\ r.endpoint.options.asBytes = Bool(TRUE)
    /\ r.msg.data = PlainText
\* The validator rejects the decoded payload with an issue list.
ValidationFails(r) ==
    /\ r.endpoint.options.schema # Undefined
    /\ ~ValidatorThrows(r)
    /\ \/ r.msg.data # JsonValid
       \/ /\ r.endpoint.options.schema = MathSchema
          /\ r.endpoint.options.asBytes = Bool(TRUE)
C6_HandlerOnlyAfterChecks ==
    \A m \in 1..MaxMsgs :
        LET r == msgs[m]
        IN  /\ r.calls # <<>> =>
                 /\ r.err = Null /\ ~DecodeFails(r)
                 /\ ~ValidationFails(r) /\ ~ValidatorThrows(r)
            /\ r.stage \in {"transport", "decode", "validate"} => r.calls = <<>>
C6_Witness ==
    \E m \in 1..MaxMsgs :
        /\ msgs[m].pc = "done" /\ msgs[m].calls = <<>>
        /\ msgs[m].err = Null /\ ValidationFails(msgs[m]) /\ ~DecodeFails(msgs[m])

\* C7: when the validator rejects the decoded payload the reply is the error
\* envelope with code "400", the fixed message and the validator's issue list
\* as details, in development mode and outside it.
C7_ValidationEnvelope ==
    \A m \in 1..MaxMsgs :
        (Answered(m) /\ msgs[m].err = Null /\ ~DecodeFails(msgs[m])
           /\ ValidationFails(msgs[m]))
          => Replies(m) = << [error |-> Bool(TRUE), code |-> Str("400"),
                              message |-> Str("Bad Request: Validation failed."),
                              details |-> msgs[m].failure.issues] >>
C7_Witness ==
    \E m \in 1..MaxMsgs :
        /\ ~isDev /\ Answered(m) /\ msgs[m].stage = "validate"
        /\ msgs[m].failure.issues = [tag |-> "issues",
                                     input |-> [tag |-> "object", json |-> JsonInvalid]]
        /\ "details" \in DOMAIN Replies(m)[1]

\* C8: when the handler throws or rejects with a plain Error the reply has
\* code "500" and message "Internal Server Error"; outside development mode
\* it has no details and nowhere holds the error's message; in development
\* mode its details are the error's name, message and stack.
HandlerFailedWith(m, class) ==
    /\ Answered(m) /\ msgs[m].stage = "handler"
    /\ msgs[m].failure.tag = "error" /\ msgs[m].failure.class = class
C8_HandlerErrorEnvelope ==
    \A m \in 1..MaxMsgs :
        HandlerFailedWith(m, "Error") =>
            LET body == Replies(m)[1]
                e == msgs[m].failure
            IN  /\ Len(Replies(m)) = 1 /\ IsErrorEnvelope(body)
                /\ body["code"] = Str("500")
                /\ body["message"] = Str("Internal Server Error")
                /\ ~isDev => /\ "details" \notin DOMAIN body
                             /\ \A f \in DOMAIN body : body[f] # Str(e.message)
                /\ isDev => /\ "details" \in DOMAIN body
                            /\ body["details"] =
                                 [tag |-> "object", name |-> e.name,
                                  message |-> e.message, stack |-> e.stack]
C8_Witness ==
    \E m \in 1..MaxMsgs :
        /\ isDev /\ HandlerFailedWith(m, "Error") /\ msgs[m].pc = "done"
        /\ msgs[m].awaiting = [kind |-> "promise", v |-> Undefined]
        /\ Replies(m)[1]["details"].message = "boom"

\* C9: a transport delivery error is answered with the failure's own message
\* and its own code, "500" when it has none; the details are its name and
\* stack in development mode and absent otherwise.
C9_TransportErrorEnvelope ==
    \A m \in 1..MaxMsgs :
        (Answered(m) /\ msgs[m].err # Null) =>
            LET body == Replies(m)[1]
                e == msgs[m].err
            IN  /\ Len(Replies(m)) = 1 /\ IsErrorEnvelope(body)
                /\ body["message"] = Str(e.message)
                /\ "code" \in DOMAIN body
                /\ body["code"] = IF e.code = Undefined THEN Str("500") ELSE e.code
                /\ ~isDev => "details" \notin DOMAIN body
                /\ isDev => /\ "details" \in DOMAIN body
                            /\ body["details"] =
                                 [tag |-> "object", name |-> e.name, stack |-> e.stack]
C9_Witness ==
    \E m \in 1..MaxMsgs :
        /\ Answered(m) /\ msgs[m].err # Null /\ msgs[m].err.code = Undefined
        /\ Replies(m)[1]["code"] = Str("500")

\* C10: outside development mode a published envelope has a details field
\* only when it is the validation-failed envelope of a failure classified as
\* a validation failure; the envelopes of transport errors, of other errors
\* and of thrown non-errors have none.
C10_DetailsOnlyForValidation ==
    ~isDev =>
      \A m \in 1..MaxMsgs : \A i \in DOMAIN Replies(m) :
          LET body == Replies(m)[i]
              e == msgs[m].failure
          IN  /\ "details" \in DOMAIN body =>
                   /\ e.tag = "error" /\ e.class = "ZodError"
                   /\ body["code"] = Str("400")
                   /\ body["message"] = Str("Bad Request: Validation failed.")
              /\ (e # NoValue /\ ~(e.tag = "error" /\ e.class = "ZodError")) =>
                   IsErrorEnvelope(body) /\ "details" \notin DOMAIN body
C10_Witness ==
    \E m \in 1..MaxMsgs :
        /\ ~isDev /\ Answered(m) /\ msgs[m].stage = "handler"
        /\ msgs[m].failure = Str("string error")
        /\ "details" \notin DOMAIN Replies(m)[1]

\* C11: when a value that is no error object is thrown during decoding,
\* validation or the handler's execution, the reply has code "500" and the
\* message "An unknown internal error occurred."; its details are the string
\* rendering of the thrown value in development mode and absent otherwise.
Rendering(v) ==
    CASE v.tag = "string" -> v
      [] v = Num(0) -> Str("0")
      [] OTHER -> NoValue
C11_WitnessValidate ==
    \E m \in 1..MaxMsgs :
        /\ Answered(m) /\ msgs[m].stage = "validate"
        /\ msgs[m].failure = Str("transform failed")

\* C12: when the handler throws or rejects with a NatsError, the reply is an
\* error envelope with that error's own message and its own code, not the
\* generic "Internal Server Error" message.
C12_HandlerNatsErrorEnvelope ==
    \A m \in 1..MaxMsgs :
        HandlerFailedWith(m, "NatsError") =>
            LET body == Replies(m)[1]
                e == msgs[m].failure
            IN  /\ Len(Replies(m)) = 1 /\ IsErrorEnvelope(body)
                /\ body["message"] = Str(e.message)
                /\ body["message"] # Str("Internal Server Error")
                /\ "code" \in DOMAIN body /\ body["code"] = e.code
C12_Witness ==
    \E m \in 1..MaxMsgs :
        /\ HandlerFailedWith(m, "NatsError")
        /\ Replies(m)[1]["message"] = Str("This is an example error")
        /\ Replies(m)[1]["code"] = Str("404")

\* C13: every published reply is either a success envelope, with error=false
\* and a data field and nothing else, or an error envelope, with error=true,
\* a string message and a code; a success reply has its data field also when
\* the handler returned no value.
C13_TwoShapes ==
    \A m \in 1..MaxMsgs : \A i \in DOMAIN Replies(m) :
        LET body == Replies(m)[i]
        IN  \/ /\ DOMAIN body = {"error", "data"}
               /\ body["error"] = Bool(FALSE)
            \/ /\ {"error", "message", "code"} \subseteq DOMAIN body
               /\ DOMAIN body \subseteq {"error", "message", "code", "details"}
               /\ body["error"] = Bool(TRUE)
               /\ body["message"].tag = "string"

\* The endpoint decodes in structured mode / in raw-byte mode.
Structured(r) == Nullish(r.endpoint.options.asBytes, Bool(FALSE)) # Bool(TRUE)
RawBytes(r) == r.endpoint.options.asBytes = Bool(TRUE)
HasValidator(r) == r.endpoint.options.schema # Undefined
\* The message has gone through decoding and validation.
Decoded(r) == r.pc \in {"awaitHandler", "done"} /\ r.err = Null

\* C14: in structured mode a payload that is no valid JSON is decoded as the
\* payload's text: the failed JSON decoding ends in no error reply, the
\* handler of an endpoint without validator is invoked with that string, and
\* a validator is given that string.
C14_StringFallback ==
    \A m \in 1..MaxMsgs :
        LET r == msgs[m]
        IN  (Decoded(r) /\ Structured(r) /\ r.msg.data = PlainText
               /\ r.msg.jsonFault = NoFault)
              => /\ r.stage # "decode"
                 /\ ~HasValidator(r) =>
                      /\ r.calls # <<>>
                      /\ \A i \in DOMAIN r.calls : r.calls[i].data = Str(PlainText)
                      /\ r.stage \in {"none", "handler", "encode"}
                 /\ HasValidator(r) =>
                      /\ r.stage = "validate"
                      /\ r.failure.issues = [tag |-> "issues", input |-> Str(PlainText)]
C14_Witness ==
    \E m \in 1..MaxMsgs :
        /\ Answered(m) /\ msgs[m].endpoint.name = "mean"
        /\ msgs[m].msg.data = PlainText /\ msgs[m].msg.jsonFault = NoFault
        /\ msgs[m].calls = <<[data |-> Str("hello"), headers |-> Undefined]>>
        /\ Replies(m) = <<[error |-> Bool(FALSE), data |-> Num(8)]>>

\* C15: in structured mode a failure of the JSON decoding that is not of the
\* not-valid-JSON kind is not replaced by the string fallback: the handler is
\* not invoked and the reply is the classifier's envelope for that failure,
\* with code "500".
C15_OtherDecodeFailurePropagates ==
    \A m \in 1..MaxMsgs :
        LET r == msgs[m]
        IN  (Decoded(r) /\ Structured(r) /\ r.msg.jsonFault # NoFault)
              => /\ r.pc = "done" /\ r.stage = "decode"
                 /\ r.failure = r.msg.jsonFault
                 /\ r.calls = <<>>
                 /\ HasReply(m) =>
                      /\ Len(Replies(m)) = 1 /\ IsErrorEnvelope(Replies(m)[1])
                      /\ Replies(m)[1]["code"] = Str("500")
                      /\ Replies(m)[1]["message"] =
                           IF r.msg.jsonFault.tag = "error"
                           THEN Str("Internal Server Error")
                           ELSE Str("An unknown internal error occurred.")
C15_Witness ==
    \E m \in 1..MaxMsgs :
        /\ Answered(m) /\ msgs[m].endpoint.name = "mean"
        /\ msgs[m].msg.jsonFault = PlainError("Test parse error")
        /\ msgs[m].calls = <<>>
        /\ Replies(m)[1]["code"] = Str("500")

\* C16: in raw-byte mode the decoded value is the message's byte payload,
\* whatever the payload and whatever msg.json() would have done: decoding
\* never fails, the handler of an endpoint without validator is invoked with
\* exactly these bytes, and a validator is given exactly these bytes.
C16_RawBytes ==
    \A m \in 1..MaxMsgs :
        LET r == msgs[m]
            bytes == [tag |-> "bytes", of |-> r.msg.data]
        IN  (Decoded(r) /\ RawBytes(r))
              => /\ r.stage # "decode"
                 /\ ~HasValidator(r) =>
                      /\ r.calls # <<>>
                      /\ \A i \in DOMAIN r.calls : r.calls[i].data = bytes
                 /\ (HasValidator(r) /\ r.stage = "validate"
                       /\ r.failure.tag = "error") =>
                      r.failure.issues = [tag |-> "issues", input |-> bytes]
C16_Witness ==
    \E m \in 1..MaxMsgs :
        /\ Answered(m) /\ msgs[m].endpoint.name = "raw"
        /\ msgs[m].msg.jsonFault = PlainError("Test parse error")
        /\ msgs[m].calls = <<[data |-> [tag |-> "bytes", of |-> "hello"],
                              headers |-> Undefined]>>
        /\ IsSuccessEnvelope(Replies(m)[1])

\* C17: the handler of an endpoint with a validator is invoked only after the
\* validator accepted the decoded value, and with the validator's output;
\* the handler of an endpoint without validator is invoked with the decoded
\* value itself: the JSON value, the fallback string or the raw bytes.
DecodedValue(r) ==
    IF RawBytes(r) THEN [tag |-> "bytes", of |-> r.msg.data]
    ELSE IF r.msg.data = PlainText THEN Str(PlainText)
    ELSE [tag |-> "object", json |-> r.msg.data]
C17_ValidatorOutput ==
    \A m \in 1..MaxMsgs :
        LET r == msgs[m]
        IN  \A i \in DOMAIN r.calls :
                IF HasValidator(r)
                THEN /\ r.msg.data = JsonValid
                     /\ r.calls[i].data = [tag |-> "object", parsed |-> JsonValid]
                     /\ r.calls[i].data # DecodedValue(r)
                ELSE r.calls[i].data = DecodedValue(r)
C17_Witness ==
    \E m \in 1..MaxMsgs :
        /\ Answered(m) /\ msgs[m].endpoint.name = "sum"
        /\ msgs[m].calls # <<>>
        /\ msgs[m].calls[1].data = [tag |-> "object", parsed |-> JsonValid]
        /\ IsSuccessEnvelope(Replies(m)[1])

\* C18: wrapHandler publishes no reply while the handler's promise is
\* pending, the result it replies with is a value and never a pending
\* computation, and a failure the handler rejects with is answered with the
\* same envelope as the same failure thrown synchronously.
ViaPromise(r) == r.awaiting # NoValue /\ r.awaiting.kind = "promise"
C18_AwaitsHandler ==
    \A m \in 1..MaxMsgs :
        LET r == msgs[m]
        IN  /\ r.pc = "awaitHandler" => Replies(m) = <<>>
            /\ r.result # NoValue => r.result \in HandlerValues
            /\ (Answered(m) /\ r.stage = "handler") =>
                  Replies(m) = << JSONstringify(formatErrorResponse(r.failure)).v >>
            /\ (r.pc = "done" /\ ViaPromise(r)) =>
                  (r.stage = "handler" <=> r.failure \in HandlerThrows)
C18_Witness ==
    \E m \in 1..MaxMsgs :
        /\ Answered(m) /\ ViaPromise(msgs[m]) /\ msgs[m].stage = "handler"
        /\ msgs[m].failure = NatsError("This is an example error", Str("404"))
        /\ Replies(m)[1]["message"] = Str("This is an example error")
\* The same failure thrown synchronously is reached as well.
C18_WitnessSync ==
    \E m \in 1..MaxMsgs :
        /\ Answered(m) /\ msgs[m].awaiting = NoValue /\ msgs[m].stage = "handler"
        /\ msgs[m].failure = NatsError("This is an example error", Str("404"))

\* The handler has returned, or its awaited promise has resolved, for message m.
HandlerSucceeded(m) == msgs[m].pc = "done" /\ msgs[m].result # NoValue
\* Every invocation was given the message's decoded (and validated) payload
\* and the message's headers.
CalledWithPayload(r) ==
    /\ r.calls # <<>>
    /\ \A i \in DOMAIN r.calls :
          /\ r.calls[i].headers = r.msg.headers
          /\ r.calls[i].data = IF HasValidator(r)
                                THEN [tag |-> "object", parsed |-> JsonValid]
                                ELSE DecodedValue(r)

\* C19 as stated: when decoding, validation and the handler succeeded, the
\* published reply is the success envelope whose data is the value the
\* handler returned or resolved to.
C19_SuccessReply ==
    \A m \in 1..MaxMsgs :
        (HandlerSucceeded(m) /\ HasReply(m)) =>
            Replies(m) = << [error |-> Bool(FALSE), data |-> msgs[m].result] >>
\* C19 amended: when decoding, validation and the handler succeeded, the
\* handler was given the message's decoded payload and headers; if its value
\* can be serialised as JSON the reply is the success envelope with that
\* value as data, the data field left out when the value is undefined; if
\* its value cannot be serialised the reply is the error envelope with code
\* "500" and message "Internal Server Error".
C19_SuccessReplyIfSerialisable ==
    \A m \in 1..MaxMsgs :
        LET r == msgs[m]
        IN  HandlerSucceeded(m) =>
              /\ CalledWithPayload(r)
              /\ HasReply(m) =>
                   /\ Len(Replies(m)) = 1
                   /\ CASE r.result = Circular ->
                             /\ IsErrorEnvelope(Replies(m)[1])
                             /\ Replies(m)[1]["code"] = Str("500")
                             /\ Replies(m)[1]["message"] = Str("Internal Server Error")
                        [] r.result = Undefined ->
                             Replies(m)[1] = [error |-> Bool(FALSE)]
                        [] OTHER ->
                             Replies(m)[1] = [error |-> Bool(FALSE), data |-> r.result]
C19_Witness ==
    \E m \in 1..MaxMsgs :
        /\ HandlerSucceeded(m) /\ HasReply(m)
        /\ msgs[m].endpoint.name = "add" /\ msgs[m].msg.headers = Headers
        /\ msgs[m].calls[1] = [data |-> [tag |-> "object", parsed |-> JsonValid],
                               headers |-> Headers]
        /\ Replies(m) = << [error |-> Bool(FALSE), data |-> Num(8)] >>
\* A handler whose value cannot be serialised is answered as well.
C19_WitnessNotSerialisable ==
    \E m \in 1..MaxMsgs :
        /\ HandlerSucceeded(m) /\ HasReply(m) /\ msgs[m].result = Circular
        /\ IsErrorEnvelope(Replies(m)[1])

\* C20: no failure of a message escapes wrapHandler: every failure it
\* receives ends the message with wrapHandler completed, and no promise
\* made for the message is left rejected without a rejection handler.
C20_NoFailureEscapes ==
    \A m \in 1..MaxMsgs :
        /\ msgs[m].failure # NoValue => msgs[m].pc = "done"
        /\ msgs[m].dropped # "rejected"

C22_BindsInListOrder ==
    [][\A c \in Controllers :
          (regCalls' = regCalls + 1 /\ lastReg'.ctrl = c.id /\ lastReg'.outcome = "ok")
            => /\ Len(svcEndpoints') = Len(svcEndpoints) + Len(c.endpoints)
               /\ \A i \in 1..Len(svcEndpoints) : svcEndpoints'[i] = svcEndpoints[i]
               /\ \A i \in 1..Len(c.endpoints) :
                     LET b == svcEndpoints'[Len(svcEndpoints) + i]
                         declared == c.endpoints[i].options.metadata
                     IN  /\ b.name = c.endpoints[i].name
                         /\ b.endpoint = c.endpoints[i]
                         /\ b.handle = groups'[c.group]
                         /\ b.options.metadata =
                              IF declared = Undefined THEN [tag |-> "object"]
                              ELSE declared]_vars
C22_Witness ==
    /\ lastReg.outcome = "ok" /\ lastReg.ctrl = 4
    /\ Len(svcEndpoints) > 1
    /\ svcEndpoints[Len(svcEndpoints)].name = "echo"
    /\ svcEndpoints[Len(svcEndpoints)].options.metadata = [tag |-> "object", doc |-> "echo"]

\* C23: the endpoints list of a constructed controller instance never
\* changes: whatever is attempted on it, it keeps exactly the entries it had
\* when the instance was constructed.
C23_EndpointsImmutable ==
    \A i \in DOMAIN objects : EndpointsOf(objects[i]) = objects[i].endpoints

\* C24: the endpoints list a controller instance is constructed with is the
\* sequence of the @Endpoint declarations of its class, in their order: each
\* entry has the declared name, the declared method as handler and the
\* declared options, empty options when none were given.
C24_EndpointsAsDeclared ==
    \A i \in DOMAIN objects :
        LET o == objects[i]
            decl == Declarations(o.class)
        IN  /\ Len(o.endpoints) = Len(decl)
            /\ \A k \in 1..Len(decl) :
                  /\ o.endpoints[k].name = decl[k].name
                  /\ o.endpoints[k].handler = decl[k].method
                  /\ o.endpoints[k].options =
                       IF decl[k].options = Undefined
                       THEN [schema |-> Undefined, asBytes |-> Undefined,
                             queue |-> Undefined, metadata |-> Undefined]
                       ELSE decl[k].options

\* C25: registerController of an object whose class is not a controller
\* class fails with InvalidControllerError and calls neither addGroup nor
\* addEndpoint.
C25_InvalidControllerRejected ==
    /\ (lastReg.seq > 0 /\ lastReg.ctrl = 0) => lastReg.outcome = "InvalidControllerError"
    /\ \A i \in DOMAIN svcGroups : svcGroups[i] # "undefined"
    /\ \A i \in DOMAIN svcEndpoints : svcEndpoints[i].ctrl # 0

\* C26: shutdown() calls service.stop() first, and calls
\* natsConnection.close() only after the stop has completed.
C26_StopThenClose ==
    \A i \in DOMAIN lifecycle :
        LET k == lifecycle[i].call
        IN  /\ lifecycle[i].what = "natsConnection.close()" =>
                  \E j \in 1..(i - 1) :
                      /\ lifecycle[j] = [call |-> k, what |-> "stop fulfilled"]
                      /\ \E h \in 1..(j - 1) :
                             lifecycle[h] = [call |-> k, what |-> "service.stop()"]
            /\ (\A j \in 1..(i - 1) : lifecycle[j].call # k) =>
                  lifecycle[i].what = "service.stop()"
C26_Witness ==
    /\ Logged(1, "natsConnection.close()") /\ Logged(1, "close fulfilled")
    /\ lastReg.seq > 0

\* C27: the development-mode flag is fixed when the app is constructed, true
\* exactly when NODE_ENV is "dev" at that moment; a later change of the
\* environment changes neither the flag nor the presence of details in the
\* error envelopes.
C27_DevModeFixed ==
    /\ isDev = (nodeEnv[1] = Str("dev"))
    /\ \A m \in 1..MaxMsgs :
          LET e == msgs[m].failure
          IN  (/\ Answered(m)
               /\ \/ msgs[m].err # Null
                  \/ e # NoValue /\ ~(e.tag = "error" /\ e.class = "ZodError"))
              => \A i \in DOMAIN Replies(m) :
                     ("details" \in DOMAIN Replies(m)[i]) <=> (nodeEnv[1] = Str("dev"))
C27_Witness ==
    /\ Len(nodeEnv) = 2 /\ nodeEnv[1] = Str("production") /\ CurrentEnv = Str("dev")
    /\ ~isDev
    /\ \E m \in 1..MaxMsgs :
          /\ HandlerFailedWith(m, "Error")
          /\ "details" \notin DOMAIN Replies(m)[1]

\* C28: a request delivered again to the same endpoint of the same app gets
\* a reply of the same envelope shape as the first delivery got, both success
\* envelopes or both error envelopes, when the handler behaves the same on
\* both deliveries.
\* What the handler did on a delivery: how often it was invoked and with
\* what, what the awaited invocation returned, and the value it returned or
\* resolved to, or threw or rejected with.
Invoked(m) == msgs[m].calls # << >>
HandlerBehaviour(m) ==
    [calls |-> msgs[m].calls, awaited |-> msgs[m].awaiting,
     ended |-> IF msgs[m].stage = "handler"
               THEN [kind |-> "throw", v |-> msgs[m].failure]
               ELSE [kind |-> "return", v |-> msgs[m].result]]
C28_ResendSameShape ==
    \A n \in Resends :
        LET m == Original(n)
        IN  (/\ msgs[m].pc = "done" /\ msgs[n].pc = "done"
             /\ (Invoked(m) /\ Invoked(n)) => HandlerBehaviour(m) = HandlerBehaviour(n))
            => /\ Len(Replies(m)) = Len(Replies(n))
               /\ \A i \in DOMAIN Replies(m) :
                     \/ IsSuccessEnvelope(Replies(m)[i]) /\ IsSuccessEnvelope(Replies(n)[i])
                     \/ IsErrorEnvelope(Replies(m)[i]) /\ IsErrorEnvelope(Replies(n)[i])
C28_Witness ==
    \E n \in Resends :
        /\ msgs[Original(n)].pc = "done" /\ msgs[n].pc = "done"
        /\ Invoked(n) /\ HandlerBehaviour(Original(n)) = HandlerBehaviour(n)
        /\ msgs[n].awaiting = [kind |-> "promise", v |-> Undefined]
        /\ Len(Replies(n)) = 1 /\ IsSuccessEnvelope(Replies(n)[1])
C28_WitnessError ==
    \E n \in Resends :
        /\ msgs[Original(n)].pc = "done" /\ msgs[n].pc = "done"
        /\ ~Invoked(n) /\ msgs[n].stage = "validate"
        /\ Len(Replies(n)) = 1 /\ IsErrorEnvelope(Replies(n)[1])

\* C29 (as claimed): constructing a controller fails with ConfigurationError
\* when no group name is provided, so no instance exists that was constructed
\* without one; an empty-string group name and an empty-string endpoint name
\* are accepted and kept as given.
GivenGroups(class) == {n.group : n \in {x \in Constructions : x.class = class}}
EmptyNamesKept ==
    \A i \in DOMAIN objects :
        LET o == objects[i]
        IN  /\ o.group \in GivenGroups(o.class)
            /\ \A d \in DOMAIN Declarations(o.class) :
                  Declarations(o.class)[d].name = "" =>
                      \E k \in DOMAIN EndpointsOf(o) : EndpointsOf(o)[k].name = ""
C29_MissingGroupRejected ==
    /\ \A i \in DOMAIN objects : objects[i].group # Undefined
    /\ EmptyNamesKept

\* C29 (amended): constructing a controller does not fail when no group name
\* is provided: the instance is created with group undefined; an empty-string
\* group name and an empty-string endpoint name are accepted and kept as given.
C29_MissingGroupAccepted ==
    /\ Len(objects) < MaxObjects => \A n \in Constructions : ENABLED New(n)
    /\ EmptyNamesKept
C29_Witness ==
    \E i, j \in DOMAIN objects :
        /\ objects[i].group = Undefined
        /\ objects[j].group = Str("") /\ objects[j].class = "EmptyNameController"
C29_WitnessEndpoint ==
    \E i \in DOMAIN objects :
        /\ objects[i].class = "PingPongController"
        /\ \E k \in DOMAIN EndpointsOf(objects[i]) : EndpointsOf(objects[i])[k].name = ""

\* C30: registration has no rollback: when the k-th addEndpoint call of a
\* registerController call fails, the failure propagates to the caller, the
\* k-1 endpoints bound before it stay bound, and the transport group created
\* for the name stays in the group map.
C30_NoRollback ==
    [][\A c \in Controllers : \A k \in 1..Len(c.endpoints) :
          (regCalls' = regCalls + 1 /\ lastReg'.ctrl = c.id /\ lastReg'.faultAt = k)
            => /\ lastReg'.outcome = "addEndpoint threw"
               /\ registeredControllers' = registeredControllers
               /\ Len(svcEndpoints') = Len(svcEndpoints) + (k - 1)
               /\ \A i \in 1..Len(svcEndpoints) : svcEndpoints'[i] = svcEndpoints[i]
               /\ \A i \in 1..(k - 1) :
                     LET b == svcEndpoints'[Len(svcEndpoints) + i]
                     IN  /\ b.ctrl = c.id /\ b.endpoint = c.endpoints[i]
                         /\ b.handle = groups'[c.group]
               /\ groups'[c.group] # 0
               /\ svcGroups'[groups'[c.group]] = c.group
               /\ groups[c.group] = 0 => Len(svcGroups') = Len(svcGroups) + 1]_vars
C30_Witness ==
    /\ lastReg.faultAt = 2 /\ lastReg.outcome = "addEndpoint threw"
    /\ groups[ControllerOf(lastReg.ctrl).group] # 0
    /\ Cardinality(BindingsOf(lastReg.ctrl)) = 1
    /\ ControllerOf(lastReg.ctrl).class \notin registeredControllers

\* C31: whatever the sequence of registerController calls, with calls ended
\* by a throwing addEndpoint and repeated with the same controller, no
\* endpoint of a controller instance is bound to the transport more than once.
C31_NoDoubleBinding ==
    \A i, j \in DOMAIN svcEndpoints :
        (svcEndpoints[i].ctrl = svcEndpoints[j].ctrl
           /\ svcEndpoints[i].index = svcEndpoints[j].index) => i = j

\* C32: for every delivered message the endpoint's handler is invoked at
\* most once, whether it returns its result at once or as a promise.
C32_HandlerInvokedOnce ==
    \A m \in 1..MaxMsgs : Len(msgs[m].calls) <= 1

\* C33: messages are processed independently: while a message is suspended
\* at the await of its validator or of its handler, for ever even, every
\* other message delivered, to the same endpoint or to another, is decoded,
\* handled and replied to.
Suspended(m) == msgs[m].pc \in {"awaitParse", "awaitHandler"}
C33_Independent ==
    \A m \in Slots \ {1} :
        Suspended(1) ~> (msgs[m].pc = "done" /\ Len(Replies(m)) = 1)
C33_Witness ==
    \E m \in Slots \ {1} :
        /\ msgs[1].pc = "awaitHandler"
        /\ msgs[m].pc = "done" /\ msgs[m].endpoint # msgs[1].endpoint
        /\ msgs[m].calls # << >> /\ Len(Replies(m)) = 1
        /\ IsSuccessEnvelope(Replies(m)[1])
C33_WitnessSameEndpoint ==
    \E m \in Slots \ {1} :
        /\ msgs[1].pc = "awaitParse"
        /\ msgs[m].pc = "done" /\ msgs[m].endpoint = msgs[1].endpoint
        /\ msgs[m].calls # << >> /\ Len(Replies(m)) = 1

\* C34: under any interleaving of the messages in flight, the reply to a
\* message is published on that message's own reply address and is computed
\* from that message's own payload and headers: the handler is given them,
\* and the one envelope on the message's reply address is made of what its
\* own processing gave; no other reply is on that address.
OwnEnvelope(r) ==
    IF r.failure # NoValue
    THEN JSONstringify(formatErrorResponse(r.failure)).v
    ELSE JSONstringify([error |-> Bool(FALSE), data |-> r.result]).v
C34_OwnReply ==
    \A m \in Slots :
        LET r == msgs[m]
        IN  /\ r.calls # << >> => CalledWithPayload(r)
            /\ r.pc # "done" => Replies(m) = << >>
            /\ r.pc = "done" => Replies(m) = << OwnEnvelope(r) >>
C34_Witness ==
    \E m \in Slots \ {1} :
        /\ msgs[1].pc = "awaitHandler" /\ msgs[1].msg.data = JsonValid
        /\ msgs[m].pc = "done" /\ msgs[m].msg.data = PlainText
        /\ Replies(m) = << [error |-> Bool(FALSE), data |-> Num(8)] >>
        /\ msgs[m].calls # << >>
        /\ msgs[m].calls[1].data # msgs[1].calls[1].data
        /\ Replies(1) = << >>

\* C35: the dispatch engine imposes no timeout and no forced cancellation:
\* while the awaited handler of a message has not settled no reply is
\* published for the message, a message leaves that await only by the
\* handler's value or failure, and a success reply is published only once
\* the handler's result is there, of which it is made.
C35_NoTimeout ==
    [][\A m \in 1..MaxMsgs :
          LET r == msgs[m]
              q == msgs'[m]
              sent == outbox'[Inbox(m)]
          IN  /\ q.pc = "awaitHandler" => sent = << >>
              /\ (r.pc = "awaitHandler" /\ q.pc # "awaitHandler") =>
                    /\ q.pc = "done"
                    /\ \E s \in Settlements :
                          \/ s.kind = "resolve" /\ q.result = s.v
                          \/ s.kind = "reject" /\ q.failure = s.v /\ q.stage = "handler"
              /\ \A i \in DOMAIN sent :
                    IsSuccessEnvelope(sent[i]) =>
                        /\ q.result # NoValue
                        /\ sent[i] = JSONstringify([error |-> Bool(FALSE),
                                                    data |-> q.result]).v]_vars
C35_Witness ==
    \E m \in 1..MaxMsgs :
        /\ msgs[m].pc = "done" /\ ViaPromise(msgs[m])
        /\ msgs[m].result = Num(8)
        /\ Replies(m) = << [error |-> Bool(FALSE), data |-> Num(8)] >>

\* C36: if the validator and the handler of a message settle, a reply for
\* the message is eventually published: the pipeline never stops silently
\* between receiving a message and publishing its envelope.
C36_EventuallyReplied ==
    \A m \in 1..MaxMsgs :
        (msgs[m].pc # "idle" /\ HasReply(m)) ~> (Replies(m) # << >>)

\* C37: processing a message, whatever its outcome, leaves the registry as
\* it is: the group map, the registered set and the development-mode flag
\* change only in registerController, the flag never; and registerController
\* of one controller changes no binding made before, for that controller or
\* for another.
C37_RegistryFrame ==
    [][/\ isDev' = isDev
       /\ regCalls' = regCalls =>
             /\ groups' = groups
             /\ registeredControllers' = registeredControllers
             /\ svcGroups' = svcGroups /\ svcEndpoints' = svcEndpoints
       /\ regCalls' # regCalls =>
             /\ msgs' = msgs /\ outbox' = outbox
             /\ registeredControllers \subseteq registeredControllers'
             /\ \A n \in DOMAIN groups : groups[n] # 0 => groups'[n] = groups[n]
             /\ Len(svcEndpoints') >= Len(svcEndpoints)
             /\ \A i \in DOMAIN svcEndpoints : svcEndpoints'[i] = svcEndpoints[i]]_vars
C37_Witness ==
    /\ lastReg.seq = Len(Startup) + 1 /\ lastReg.ctrl = 4 /\ lastReg.outcome = "ok"
    /\ \E m \in 1..MaxMsgs :
          /\ msgs[m].pc = "done" /\ msgs[m].stage = "handler"
          /\ msgs[m].endpoint.name = "echo"
    /\ BindingsOf(1) # {} /\ BindingsOf(3) # {}

\* C38: the validation-failed envelope with code "400" is published only
\* when the endpoint has a validator and that validator rejected the decoded
\* payload of the message; a failure raised by the handler itself is never
\* answered as a validation failure and never has its details disclosed
\* outside development mode.
C38_ValidationOnlyFromValidator ==
    \A m \in 1..MaxMsgs : \A i \in DOMAIN Replies(m) :
        LET r == msgs[m]
            body == Replies(m)[i]
        IN  /\ (IsErrorEnvelope(body) /\ body["code"] = Str("400")) =>
                  /\ HasValidator(r) /\ r.stage = "validate" /\ ValidationFails(r)
            /\ r.stage = "handler" =>
                  /\ body["message"] # Str("Bad Request: Validation failed.")
                  /\ ~isDev => "details" \notin DOMAIN body

\* C39: the endpoints list of a controller instance holds only endpoints
\* declared with @Endpoint on the instance's own class: declarations on
\* another class, a subclass or a superclass included, add nothing to it, and
\* a change of the list of one instance changes the list of no other.
ListIn(st, o) == IF o.ref = "own" THEN o.own ELSE st.arrays[o.ref]
DeclaredOn(class, entry) ==
    \E d \in DOMAIN Declarations(class) :
        /\ Declarations(class)[d].name = entry.name
        /\ Declarations(class)[d].method = entry.handler
C39_OwnEndpointsOnly ==
    [][/\ \A i \in DOMAIN objects' :
             \A k \in DOMAIN objects'[i].endpoints :
                 DeclaredOn(objects'[i].class, objects'[i].endpoints[k])
       /\ \A i, j \in DOMAIN objects :
             (i # j /\ ListIn(statics', objects'[i]) # ListIn(statics, objects[i]))
                => ListIn(statics', objects'[j]) = ListIn(statics, objects[j])]_vars

\* C40: a controller is recorded in the registered set only after each of
\* its endpoints has been bound: whenever the registered set holds a
\* controller, the transport holds, for each endpoint of the instance that
\* was recorded, a binding under the group of the instance's name.
BoundUnderGroup(c, k) ==
    \E i \in DOMAIN svcEndpoints :
        /\ svcEndpoints[i].ctrl = c.id /\ svcEndpoints[i].index = k
        /\ svcEndpoints[i].name = c.endpoints[k].name
        /\ svcEndpoints[i].handle = groups[c.group]
        /\ groups[c.group] # 0 /\ svcGroups[groups[c.group]] = c.group
C40_RecordedAfterBinding ==
    \A key \in registeredControllers :
        \E c \in Controllers :
            /\ ControllerKey(c) = key /\ c.id \in succeeded
            /\ \A k \in 1..Len(c.endpoints) : BoundUnderGroup(c, k)
C40_Witness ==
    /\ faults > 0 /\ lastReg.outcome = "ok"
    /\ Cardinality(registeredControllers) = 2
    /\ \E c \in Controllers :
          /\ ControllerKey(c) \notin registeredControllers
          /\ BindingsOf(c.id) # {}

====
